---- MODULE Spec2Model ----
(***************************************************************************)
(* Model of the Excel HTTP bridge (src/app.py): the three Flask handlers   *)
(* health_check, get_excel_data and write_excel_data, the three locator    *)
(* helpers they call, the automation host they talk to, and the JSON       *)
(* encoder RobustJSONEncoder.default.                                      *)
(*                                                                         *)
(* A handler runs to completion in one action.  The automation host        *)
(* (application, open workbooks, sheets, cells) is the environment; it      *)
(* changes through its own actions between requests.                       *)
(***************************************************************************)
EXTENDS Integers, Sequences, FiniteSets, TLC

\* ------------------------------------------------------------------ bounds
MaxOps == 1          \* longest operations list of a batch (interleaved model)
MaxBatch == 3        \* longest operations list of a batch (batch model)
MaxRows == 102       \* largest table row count a read observes
MaxCols == 2         \* largest table column count a read observes

\* -------------------------------------------------------- python sentinels
NoneV == "<None>"        \* Python None / a key missing from a dict (dict.get)
EmptyStr == ""           \* a present but empty string
EmptyGrid == "[]"        \* a present but empty list

\* Python truthiness of the JSON values the handlers test with `not x` / `if x`
Falsy == {NoneV, EmptyStr, EmptyGrid}
Truthy(x) == x \notin Falsy

\* str(x) inside an f-string: None prints as "None"
PyStr(x) == IF x = NoneV THEN "None" ELSE x

\* ------------------------------------------------------ the automation host
BookIds == {1, 2}
BookName == [b \in BookIds |-> IF b = 1 THEN "Book1.xlsx" ELSE "Book2.xlsx"]
SheetNames == {"Sheet1", "Sheet2"}
NoBook == 0

\* binding calls that can be made to raise
Faults == {"none", "apps_active", "books_active", "sheets_active", "name"}

VARIABLES
    appRunning,     \* an Excel application is running
    books,          \* ids of the open workbooks
    activeBook,     \* id of the active workbook, NoBook when none is open
    sheets,         \* sheets[b]: names of the sheets of workbook b
    activeSheet,    \* activeSheet[b]: name of the active sheet of workbook b
    fault,          \* the binding call that currently raises, "none" if none
    doc,            \* doc[b][s][a]: content of cell a of sheet s of workbook b
    req,            \* the request (or encoder call) last handled
    resp,           \* the response it got
    trace           \* what the last request did to the worksheet, in order

hostVars == <<appRunning, books, activeBook, sheets, activeSheet, fault>>
vars == <<appRunning, books, activeBook, sheets, activeSheet, fault, doc, req, resp, trace>>

\* ------------------------------------------------------------- responses
Response(status, body) == [status |-> status, body |-> body]
NoRequest == [endpoint |-> "none"]
NoResponse == [status |-> 0, body |-> [none |-> TRUE]]

\* trace.attempted: indices of the operations the batch loop entered;
\* trace.writes: the assignments worksheet.range(a).value = v that completed,
\* each <<index of the operation, address, value>>;
\* trace.results: the handler's results list when the handler ended
NoTrace == [attempted |-> <<>>, writes |-> <<>>, results |-> <<>>]

\* str(e) of an exception raised by the binding or by Python
ExcMsg == <<"exception">>
MsgNoApp == <<"No Excel application running">>
MsgNoWorkbook == <<"No active workbook found">>
MsgNoWorksheet == <<"No active worksheet found">>
MsgNoData == <<"No data found in worksheet">>
MsgNoOperations == <<"No operations provided">>
MsgWorkbookNotFound(workbook_name) == <<"Workbook '", workbook_name, "' not found">>
MsgSheetNotFound(sheet_name, wbname) ==
    <<"Sheet '", sheet_name, "' not found in workbook '", wbname, "'">>

ErrorBody(msg) == [error |-> msg]

\* ---------------------------------------------------------------- locator
\* a raised exception is the outcome [ok |-> FALSE]; a returned value v is
\* [ok |-> TRUE, val |-> v]
Raise == [ok |-> FALSE, val |-> NoneV]
Return(v) == [ok |-> TRUE, val |-> v]

\* xw.apps.active: the running application, raising (or None) without one
AppsActive ==
    IF fault = "apps_active" THEN Raise
    ELSE IF appRunning THEN Return("app") ELSE Return(NoneV)

\* app.books.active
BooksActive ==
    IF fault = "books_active" \/ activeBook = NoBook THEN [ok |-> FALSE, val |-> NoBook]
    ELSE [ok |-> TRUE, val |-> activeBook]

\* app.books[name]
BooksGetItem(name) ==
    IF \E b \in books : BookName[b] = name
    THEN [ok |-> TRUE, val |-> CHOOSE b \in books : BookName[b] = name]
    ELSE [ok |-> FALSE, val |-> NoBook]

\* workbook.sheets[name] and workbook.sheets.active; a worksheet handle is
\* the pair of its workbook and its name
NoSheet == [book |-> NoBook, sheet |-> NoneV]
SheetsGetItem(workbook, name) ==
    IF name \in sheets[workbook]
    THEN [ok |-> TRUE, val |-> [book |-> workbook, sheet |-> name]]
    ELSE [ok |-> FALSE, val |-> NoSheet]
SheetsActive(workbook) ==
    IF fault = "sheets_active" \/ activeSheet[workbook] = NoneV
    THEN [ok |-> FALSE, val |-> NoSheet]
    ELSE [ok |-> TRUE, val |-> [book |-> workbook, sheet |-> activeSheet[workbook]]]

\* workbook.name / worksheet.name
WorkbookNameOf(workbook) == IF fault = "name" THEN Raise ELSE Return(BookName[workbook])
WorksheetNameOf(worksheet) == IF fault = "name" THEN Raise ELSE Return(worksheet.sheet)

get_excel_app == IF AppsActive.ok THEN AppsActive.val ELSE NoneV

\* faulty variant: the workbook is the first of the collection, whichever
\* workbook is active now
get_active_workbookFirst(app) ==
    LET a == IF app = NoneV THEN get_excel_app ELSE app
    IN  IF a = NoneV THEN NoBook
        ELSE IF BooksActive.ok
             THEN CHOOSE b \in books : \A o \in books : b <= o
             ELSE NoBook

get_active_workbook(app) ==
    LET a == IF app = NoneV THEN get_excel_app ELSE app
    IN  IF a = NoneV THEN NoBook
        ELSE IF BooksActive.ok THEN BooksActive.val ELSE NoBook

\* faulty variant: a named sheet that is not there falls back to the active sheet
get_worksheetFallback(workbook, sheet_name) ==
    IF Truthy(sheet_name) /\ SheetsGetItem(workbook, sheet_name).ok
    THEN SheetsGetItem(workbook, sheet_name).val
    ELSE IF SheetsActive(workbook).ok THEN SheetsActive(workbook).val ELSE NoSheet

get_worksheet(workbook, sheet_name) ==
    IF Truthy(sheet_name)
    THEN IF SheetsGetItem(workbook, sheet_name).ok
         THEN SheetsGetItem(workbook, sheet_name).val ELSE NoSheet
    ELSE IF SheetsActive(workbook).ok THEN SheetsActive(workbook).val ELSE NoSheet

\* ----------------------------------------------------------- GET /health
\* faulty variant: the workbook is checked before the application
health_checkWorkbookFirst ==
    LET excel_app == get_excel_app
        workbook == get_active_workbook(excel_app)
    IN  IF workbook = NoBook
        THEN Response(404, [status |-> "unhealthy", error |-> MsgNoWorkbook])
        ELSE IF excel_app = NoneV
        THEN Response(503, [status |-> "unhealthy", error |-> MsgNoApp])
        ELSE IF ~WorkbookNameOf(workbook).ok
        THEN Response(500, [status |-> "unhealthy", error |-> ExcMsg])
        ELSE Response(200, [status |-> "healthy",
                            workbook |-> WorkbookNameOf(workbook).val])

health_check ==
    LET excel_app == get_excel_app
        workbook == get_active_workbook(excel_app)
    IN  IF excel_app = NoneV
        THEN Response(503, [status |-> "unhealthy", error |-> MsgNoApp])
        ELSE IF workbook = NoBook
        THEN Response(404, [status |-> "unhealthy", error |-> MsgNoWorkbook])
        ELSE IF ~WorkbookNameOf(workbook).ok
        THEN Response(500, [status |-> "unhealthy", error |-> ExcMsg])
        ELSE Response(200, [status |-> "healthy",
                            workbook |-> WorkbookNameOf(workbook).val])

Health ==
    /\ req = NoRequest
    /\ req' = [endpoint |-> "health"]
    /\ resp' = health_check
    /\ trace' = NoTrace
    /\ UNCHANGED <<hostVars, doc>>

\* ------------------------------------------------- GET /api/excel-data
\* What the binding shows of the resolved worksheet while one request runs:
\* worksheet.used_range raises, is None, or is a range anchored at
\* (row, column); converting the range to a DataFrame raises, gives None, or
\* gives a table of nrows records and ncols columns (header row excluded).
UsedRange(used, row, column, conv, nrows, ncols) ==
    [used |-> used, row |-> row, column |-> column,
     conv |-> conv, nrows |-> nrows, ncols |-> ncols]

\* value of the sheet cell at (row r, column c)
GridValue(r, c) == r * 1000 + c

Letters == <<"A", "B", "C", "D", "E", "F", "G", "H", "I", "J", "K", "L", "M",
             "N", "O", "P", "Q", "R", "S", "T", "U", "V", "W", "X", "Y", "Z">>

\* xw.utils.int_to_col_letter: 1 -> A, 26 -> Z, 27 -> AA
RECURSIVE int_to_col_letter(_)
int_to_col_letter(n) ==
    IF n <= 0 THEN <<>>
    ELSE LET m == (n - 1) % 26
         IN  int_to_col_letter((n - 1 - m) \div 26) \o <<Letters[m + 1]>>

\* request.args.get('include_cell_mapping', 'true').lower() == 'true'
Lower(str) == IF str \in {"true", "True", "TRUE"} THEN "true" ELSE str
IncludeCellMapping(param) == Lower(IF param = NoneV THEN "true" ELSE param) = "true"

\* faulty variant: the cap is off by one
CellMappingLimitLow == 100 - 1

CellMappingLimit == 100

\* df.to_dict('records'): record i (0-based) maps each column name to the
\* value of the cell i + 1 rows below the header row
DataRecords(ur) ==
    [i \in 0 .. ur.nrows - 1 |->
        [j \in 0 .. ur.ncols - 1 |-> GridValue(ur.row + i + 1, ur.column + j)]]

\* faulty variant: the header row is not skipped
CellAddrNoHeader(start_row, start_col, i, j) ==
    <<int_to_col_letter(start_col + j), start_row + i>>

CellAddr(start_row, start_col, i, j) ==
    <<int_to_col_letter(start_col + j), start_row + i + 1>>

\* The two nested loops over df.iterrows() and enumerate(df.columns) visit the
\* (record, column) pairs in row-major order, pair n being record n \div ncols
\* and column n % ncols, and assign cell_mapping[address] = value: the dict
\* holds, for every address, the value of the last pair that gave that address.
CellMapping(ur) ==
    LET pairs == 0 .. ur.nrows * ur.ncols - 1
        AddrOf(n) == CellAddr(ur.row, ur.column, n \div ur.ncols, n % ur.ncols)
        data == DataRecords(ur)
    IN  [k \in {AddrOf(n) : n \in pairs} |->
            LET last == CHOOSE n \in pairs :
                            /\ AddrOf(n) = k
                            /\ \A m \in pairs : AddrOf(m) = k => m <= n
            IN  data[last \div ur.ncols][last % ur.ncols]]

\* resolution of the workbook, shared by the read and the write handler
\* faulty variant: a named workbook that is not open falls back to the active one
ResolveWorkbookFallback(excel_app, workbook_name) ==
    IF Truthy(workbook_name) /\ BooksGetItem(workbook_name).ok
    THEN [ok |-> TRUE, val |-> BooksGetItem(workbook_name).val, msg |-> <<>>]
    ELSE IF get_active_workbook(excel_app) # NoBook
         THEN [ok |-> TRUE, val |-> get_active_workbook(excel_app), msg |-> <<>>]
         ELSE [ok |-> FALSE, val |-> NoBook, msg |-> MsgNoWorkbook]

ResolveWorkbook(excel_app, workbook_name) ==
    IF Truthy(workbook_name)
    THEN IF BooksGetItem(workbook_name).ok
         THEN [ok |-> TRUE, val |-> BooksGetItem(workbook_name).val, msg |-> <<>>]
         ELSE [ok |-> FALSE, val |-> NoBook, msg |-> MsgWorkbookNotFound(workbook_name)]
    ELSE IF get_active_workbook(excel_app) # NoBook
         THEN [ok |-> TRUE, val |-> get_active_workbook(excel_app), msg |-> <<>>]
         ELSE [ok |-> FALSE, val |-> NoBook, msg |-> MsgNoWorkbook]

\* the response to a worksheet that did not resolve
WorksheetMissing(workbook, sheet_name) ==
    IF Truthy(sheet_name)
    THEN IF WorkbookNameOf(workbook).ok
         THEN Response(404, ErrorBody(MsgSheetNotFound(sheet_name,
                                          WorkbookNameOf(workbook).val)))
         ELSE Response(500, ErrorBody(ExcMsg))
    ELSE Response(404, ErrorBody(MsgNoWorksheet))

\* faulty variant: an empty table is not turned into "No data found"
ReadTableKeepEmpty(workbook, worksheet, include_cell_mapping, ur) ==
    IF ur.used = "raise" THEN Response(500, ErrorBody(ExcMsg))
    ELSE IF ur.used = "none" THEN Response(404, ErrorBody(MsgNoData))
    ELSE IF ur.conv = "raise" THEN Response(500, ErrorBody(ExcMsg))
    ELSE IF ur.conv = "none" THEN Response(404, ErrorBody(MsgNoData))
    ELSE IF ~WorkbookNameOf(workbook).ok \/ ~WorksheetNameOf(worksheet).ok
    THEN Response(500, ErrorBody(ExcMsg))
    ELSE Response(200, [workbook |-> WorkbookNameOf(workbook).val,
                        sheet |-> WorksheetNameOf(worksheet).val,
                        data |-> DataRecords(ur),
                        shape |-> <<ur.nrows, ur.ncols>>])

ReadTable(workbook, worksheet, include_cell_mapping, ur) ==
    IF ur.used = "raise" THEN Response(500, ErrorBody(ExcMsg))
    ELSE IF ur.used = "none" THEN Response(404, ErrorBody(MsgNoData))
    ELSE IF ur.conv = "raise" THEN Response(500, ErrorBody(ExcMsg))
    ELSE IF ur.conv = "none" \/ ur.nrows = 0 \/ ur.ncols = 0
    THEN Response(404, ErrorBody(MsgNoData))
    ELSE IF ~WorkbookNameOf(workbook).ok \/ ~WorksheetNameOf(worksheet).ok
    THEN Response(500, ErrorBody(ExcMsg))
    ELSE LET response_data ==
                 [workbook |-> WorkbookNameOf(workbook).val,
                  sheet |-> WorksheetNameOf(worksheet).val,
                  data |-> DataRecords(ur),
                  shape |-> <<ur.nrows, ur.ncols>>]
         IN  IF include_cell_mapping /\ ur.nrows <= CellMappingLimit
             THEN Response(200, [workbook |-> response_data.workbook,
                                 sheet |-> response_data.sheet,
                                 data |-> response_data.data,
                                 shape |-> response_data.shape,
                                 cell_mapping |-> CellMapping(ur)])
             ELSE Response(200, response_data)

\* faulty variant: the application is not checked; the workbook lookup comes first
get_excel_dataNoAppCheck(workbook_name, sheet_name, flag, ur) ==
    LET include_cell_mapping == IncludeCellMapping(flag)
        excel_app == get_excel_app
        wb == ResolveWorkbook(excel_app, workbook_name)
        worksheet == get_worksheet(wb.val, sheet_name)
    IN  IF ~wb.ok THEN Response(404, ErrorBody(wb.msg))
        ELSE IF worksheet = NoSheet THEN WorksheetMissing(wb.val, sheet_name)
        ELSE ReadTable(wb.val, worksheet, include_cell_mapping, ur)

\* faulty variant: a named sheet is looked up in the active workbook before
\* the workbook of the request is resolved
get_excel_dataSheetFirst(workbook_name, sheet_name, flag, ur) ==
    LET include_cell_mapping == IncludeCellMapping(flag)
        excel_app == get_excel_app
        active == get_active_workbook(excel_app)
        wb == ResolveWorkbook(excel_app, workbook_name)
        worksheet == get_worksheet(wb.val, sheet_name)
    IN  IF excel_app = NoneV THEN Response(503, ErrorBody(MsgNoApp))
        ELSE IF /\ Truthy(sheet_name)
                /\ active # NoBook
                /\ get_worksheet(active, sheet_name) = NoSheet
        THEN WorksheetMissing(active, sheet_name)
        ELSE IF ~wb.ok THEN Response(404, ErrorBody(wb.msg))
        ELSE IF worksheet = NoSheet THEN WorksheetMissing(wb.val, sheet_name)
        ELSE ReadTable(wb.val, worksheet, include_cell_mapping, ur)

get_excel_data(workbook_name, sheet_name, flag, ur) ==
    LET include_cell_mapping == IncludeCellMapping(flag)
        excel_app == get_excel_app
        wb == ResolveWorkbook(excel_app, workbook_name)
        worksheet == get_worksheet(wb.val, sheet_name)
    IN  IF excel_app = NoneV THEN Response(503, ErrorBody(MsgNoApp))
        ELSE IF ~wb.ok THEN Response(404, ErrorBody(wb.msg))
        ELSE IF worksheet = NoSheet THEN WorksheetMissing(wb.val, sheet_name)
        ELSE ReadTable(wb.val, worksheet, include_cell_mapping, ur)

GetExcelData(workbook_name, sheet_name, flag, ur) ==
    /\ req = NoRequest
    /\ req' = [endpoint |-> "excel-data", workbook |-> workbook_name,
               sheet |-> sheet_name, include_cell_mapping |-> flag, used_range |-> ur]
    /\ resp' = get_excel_data(workbook_name, sheet_name, flag, ur)
    /\ trace' = NoTrace
    /\ UNCHANGED <<hostVars, doc>>

\* ------------------------------------------------ POST /api/write-excel
\* cell addresses the worksheet accepts; range() raises on any other address
Addrs == {"A1", "B2"}
BadAddr == "??"

\* One entry of the operations list.  obj: the entry is a JSON object (it has
\* .get); a key missing from the object reads as NoneV, as dict.get gives.
Operation(type, cell, value, range, values) ==
    [obj |-> TRUE, type |-> type, cell |-> cell, value |-> value,
     range |-> range, values |-> values]
NotAnObject ==
    [obj |-> FALSE, type |-> NoneV, cell |-> NoneV, value |-> NoneV,
     range |-> NoneV, values |-> NoneV]

ResultError(msg) == [error |-> msg]
ResultSuccess(msg) == [success |-> msg]

\* worksheet.range(address).value = value on the cells of one worksheet
RangeAssign(cells, address, value) ==
    IF address \in Addrs
    THEN [ok |-> TRUE, val |-> [cells EXCEPT ![address] = value]]
    ELSE [ok |-> FALSE, val |-> cells]

\* state of the batch loop: the cells of the target worksheet, the results
\* appended so far, the trace, and whether an exception left the loop
LoopState(cells, results, tr, raised) ==
    [cells |-> cells, results |-> results, trace |-> tr, raised |-> raised]

WriteCell(st, i, operation) ==
    LET cell == operation.cell
        value == operation.value
        w == RangeAssign(st.cells, cell, value)
    IN  IF ~Truthy(cell)
        THEN LoopState(st.cells,
                 Append(st.results,
                     ResultError(<<"Cell address required for write_cell operation">>)),
                 st.trace, FALSE)
        ELSE IF w.ok
        THEN LoopState(w.val,
                 Append(st.results,
                     ResultSuccess(<<"Written '", PyStr(value), "' to cell ", cell>>)),
                 [st.trace EXCEPT !.writes = Append(@, <<i, cell, value>>)], FALSE)
        ELSE LoopState(st.cells,
                 Append(st.results,
                     ResultError(<<"Failed to write to cell ", cell, ": ", ExcMsg[1]>>)),
                 st.trace, FALSE)

\* faulty variant: write_range does not check that `values` is there
WriteRangeUnchecked(st, i, operation) ==
    LET range_addr == operation.range
        values == operation.values
        w == RangeAssign(st.cells, range_addr, values)
    IN  IF ~Truthy(range_addr)
        THEN LoopState(st.cells,
                 Append(st.results,
                     ResultError(<<"Range and values required for write_range operation">>)),
                 st.trace, FALSE)
        ELSE IF w.ok
        THEN LoopState(w.val,
                 Append(st.results,
                     ResultSuccess(<<"Written data to range ", range_addr>>)),
                 [st.trace EXCEPT !.writes = Append(@, <<i, range_addr, values>>)], FALSE)
        ELSE LoopState(st.cells,
                 Append(st.results,
                     ResultError(<<"Failed to write to range ", range_addr, ": ", ExcMsg[1]>>)),
                 st.trace, FALSE)

WriteRange(st, i, operation) ==
    LET range_addr == operation.range
        values == operation.values
        w == RangeAssign(st.cells, range_addr, values)
    IN  IF ~Truthy(range_addr) \/ ~Truthy(values)
        THEN LoopState(st.cells,
                 Append(st.results,
                     ResultError(<<"Range and values required for write_range operation">>)),
                 st.trace, FALSE)
        ELSE IF w.ok
        THEN LoopState(w.val,
                 Append(st.results,
                     ResultSuccess(<<"Written data to range ", range_addr>>)),
                 [st.trace EXCEPT !.writes = Append(@, <<i, range_addr, values>>)], FALSE)
        ELSE LoopState(st.cells,
                 Append(st.results,
                     ResultError(<<"Failed to write to range ", range_addr, ": ", ExcMsg[1]>>)),
                 st.trace, FALSE)

\* one iteration of `for operation in operations`
ProcessOperation(st, i, operation) ==
    LET entered == [st EXCEPT !.trace.attempted = Append(@, i)]
    IN  IF ~operation.obj THEN [entered EXCEPT !.raised = TRUE]
        ELSE IF operation.type = "write_cell" THEN WriteCell(entered, i, operation)
        ELSE IF operation.type = "write_range" THEN WriteRange(entered, i, operation)
        ELSE LoopState(entered.cells,
                 Append(entered.results,
                     ResultError(<<"Unknown operation type: ", PyStr(operation.type)>>)),
                 entered.trace, FALSE)

\* faulty variant: the loop stops at the first operation that got an error record
RECURSIVE OperationsLoopBreak(_, _, _)
OperationsLoopBreak(st, i, operations) ==
    IF \/ st.raised
       \/ i > Len(operations)
       \/ (st.results # <<>> /\ DOMAIN st.results[Len(st.results)] = {"error"})
    THEN st
    ELSE OperationsLoopBreak(ProcessOperation(st, i, operations[i]), i + 1, operations)

RECURSIVE OperationsLoop(_, _, _)
OperationsLoop(st, i, operations) ==
    IF st.raised \/ i > Len(operations) THEN st
    ELSE OperationsLoop(ProcessOperation(st, i, operations[i]), i + 1, operations)

\* The request body as request.get_json() gives it:
\*   json "none"    no body: get_json() is None
\*   json "raise"   get_json() raises
\*   json "array"   a JSON array holding the string 'operations'
\*   json "object"  a JSON object; has_operations: the key is there;
\*                  iterable: its value can be iterated over
Body(json, has_operations, iterable, workbook_name, sheet_name, operations) ==
    [json |-> json, has_operations |-> has_operations, iterable |-> iterable,
     workbook |-> workbook_name, sheet |-> sheet_name, operations |-> operations]

\* outcome of a write request: the response, the cells of the document and
\* the trace
Outcome(response, d, tr) == [resp |-> response, doc |-> d, trace |-> tr]

\* faulty variant: an exception of the loop ends the batch with the results
\* gathered so far
RunBatchSwallow(worksheet, data) ==
    LET st == OperationsLoop(
                  LoopState(doc[worksheet.book][worksheet.sheet], <<>>, NoTrace, FALSE),
                  1, data.operations)
        d == [doc EXCEPT ![worksheet.book][worksheet.sheet] = st.cells]
        tr == [st.trace EXCEPT !.results = st.results]
    IN  IF ~data.iterable THEN Outcome(Response(500, ErrorBody(ExcMsg)), doc, NoTrace)
        ELSE Outcome(Response(200, [results |-> st.results]), d, tr)

RunBatch(worksheet, data) ==
    LET st == OperationsLoop(
                  LoopState(doc[worksheet.book][worksheet.sheet], <<>>, NoTrace, FALSE),
                  1, data.operations)
        d == [doc EXCEPT ![worksheet.book][worksheet.sheet] = st.cells]
        tr == [st.trace EXCEPT !.results = st.results]
    IN  IF ~data.iterable THEN Outcome(Response(500, ErrorBody(ExcMsg)), doc, NoTrace)
        ELSE IF st.raised THEN Outcome(Response(500, ErrorBody(ExcMsg)), d, tr)
        ELSE Outcome(Response(200, [results |-> st.results]), d, tr)

\* lines 160-219: resolution, then the batch
ResolveAndRun(data) ==
    LET excel_app == get_excel_app
        wb == ResolveWorkbook(excel_app, data.workbook)
        worksheet == get_worksheet(wb.val, data.sheet)
    IN  IF excel_app = NoneV
        THEN Outcome(Response(503, ErrorBody(MsgNoApp)), doc, NoTrace)
        ELSE IF ~wb.ok THEN Outcome(Response(404, ErrorBody(wb.msg)), doc, NoTrace)
        ELSE IF worksheet = NoSheet
        THEN Outcome(WorksheetMissing(wb.val, data.sheet), doc, NoTrace)
        ELSE RunBatch(worksheet, data)

\* faulty variant: the host is looked up before the body is validated
write_excel_dataHostFirst(data) ==
    IF get_excel_app = NoneV
    THEN Outcome(Response(503, ErrorBody(MsgNoApp)), doc, NoTrace)
    ELSE IF data.json = "raise" THEN Outcome(Response(500, ErrorBody(ExcMsg)), doc, NoTrace)
    ELSE IF data.json = "none" \/ (data.json = "object" /\ ~data.has_operations)
    THEN Outcome(Response(400, ErrorBody(MsgNoOperations)), doc, NoTrace)
    ELSE IF data.json = "array"
    THEN Outcome(Response(500, ErrorBody(ExcMsg)), doc, NoTrace)
    ELSE ResolveAndRun(data)

write_excel_data(data) ==
    IF data.json = "raise" THEN Outcome(Response(500, ErrorBody(ExcMsg)), doc, NoTrace)
    ELSE IF data.json = "none" \/ (data.json = "object" /\ ~data.has_operations)
    THEN Outcome(Response(400, ErrorBody(MsgNoOperations)), doc, NoTrace)
    ELSE IF data.json = "array"
    THEN Outcome(Response(500, ErrorBody(ExcMsg)), doc, NoTrace)
    ELSE ResolveAndRun(data)

WriteExcel(data) ==
    /\ req = NoRequest
    /\ req' = [endpoint |-> "write-excel", data |-> data]
    /\ LET out == write_excel_data(data)
       IN  resp' = out.resp /\ doc' = out.doc /\ trace' = out.trace
    /\ UNCHANGED hostVars

\* ------------------------------------------------------ host transitions
\* Requests are handled one at a time: req, resp and trace describe the
\* request just answered until its response is delivered; the host changes
\* between requests.
Idle == req = NoRequest
Quiet == UNCHANGED <<req, resp, trace>>

Deliver ==
    /\ ~Idle
    /\ req' = NoRequest
    /\ resp' = NoResponse
    /\ trace' = NoTrace
    /\ UNCHANGED <<hostVars, doc>>

DefaultSheets == [b \in BookIds |-> {"Sheet1"}]
DefaultActiveSheet == [b \in BookIds |-> "Sheet1"]
EmptyCells == [a \in Addrs |-> NoneV]
EmptyDoc == [b \in BookIds |-> [s \in SheetNames |-> EmptyCells]]

StartApp ==
    /\ Idle
    /\ ~appRunning
    /\ appRunning' = TRUE
    /\ UNCHANGED <<books, activeBook, sheets, activeSheet, fault, doc>>
    /\ Quiet

\* quitting the application closes every workbook; unsaved cells are lost
StopApp ==
    /\ Idle
    /\ appRunning
    /\ appRunning' = FALSE
    /\ books' = {}
    /\ activeBook' = NoBook
    /\ sheets' = DefaultSheets
    /\ activeSheet' = DefaultActiveSheet
    /\ doc' = EmptyDoc
    /\ UNCHANGED fault
    /\ Quiet

\* a workbook opens with one sheet and becomes the active workbook
OpenBook(b) ==
    /\ Idle
    /\ appRunning
    /\ b \notin books
    /\ books' = books \cup {b}
    /\ activeBook' = b
    /\ UNCHANGED <<appRunning, sheets, activeSheet, fault, doc>>
    /\ Quiet

CloseBook(b) ==
    /\ Idle
    /\ b \in books
    /\ books' = books \ {b}
    /\ activeBook' = IF activeBook # b THEN activeBook
                     ELSE IF books' = {} THEN NoBook
                     ELSE CHOOSE o \in books' : TRUE
    /\ sheets' = [sheets EXCEPT ![b] = DefaultSheets[b]]
    /\ activeSheet' = [activeSheet EXCEPT ![b] = DefaultActiveSheet[b]]
    /\ doc' = [doc EXCEPT ![b] = EmptyDoc[b]]
    /\ UNCHANGED <<appRunning, fault>>
    /\ Quiet

ActivateBook(b) ==
    /\ Idle
    /\ b \in books
    /\ activeBook # b
    /\ activeBook' = b
    /\ UNCHANGED <<appRunning, books, sheets, activeSheet, fault, doc>>
    /\ Quiet

\* a new sheet becomes the active sheet of its workbook
AddSheet(b, s) ==
    /\ Idle
    /\ b \in books
    /\ s \notin sheets[b]
    /\ sheets' = [sheets EXCEPT ![b] = @ \cup {s}]
    /\ activeSheet' = [activeSheet EXCEPT ![b] = s]
    /\ UNCHANGED <<appRunning, books, activeBook, fault, doc>>
    /\ Quiet

\* a workbook keeps at least one sheet; the cells of a removed sheet are gone
RemoveSheet(b, s) ==
    /\ Idle
    /\ b \in books
    /\ s \in sheets[b]
    /\ sheets[b] # {s}
    /\ sheets' = [sheets EXCEPT ![b] = @ \ {s}]
    /\ activeSheet' = [activeSheet EXCEPT ![b] =
                          IF @ = s THEN CHOOSE o \in sheets'[b] : TRUE ELSE @]
    /\ doc' = [doc EXCEPT ![b][s] = EmptyCells]
    /\ UNCHANGED <<appRunning, books, activeBook, fault>>
    /\ Quiet

ActivateSheet(b, s) ==
    /\ Idle
    /\ b \in books
    /\ s \in sheets[b]
    /\ activeSheet[b] # s
    /\ activeSheet' = [activeSheet EXCEPT ![b] = s]
    /\ UNCHANGED <<appRunning, books, activeBook, sheets, fault, doc>>
    /\ Quiet

\* a binding call starts or stops raising
SetFault(f) ==
    /\ Idle
    /\ f # fault
    /\ fault' = f
    /\ UNCHANGED <<appRunning, books, activeBook, sheets, activeSheet, doc>>
    /\ Quiet

\* --------------------------------------------------------- request inputs
\* names a request can carry; NoneV: parameter absent, EmptyStr: given empty
WorkbookNames == {NoneV, EmptyStr, "Book1.xlsx", "Book2.xlsx"}
RequestSheetNames == {NoneV, EmptyStr, "Sheet1", "Sheet2"}
FlagParams == {NoneV, "true", "True", "false", "1"}

Grid == "[[g]]"

\* used-range observations
NoTable(used, conv) == UsedRange(used, 1, 1, conv, 0, 0)
UsedRangesSmall ==
    {NoTable("raise", "none"), NoTable("none", "none"),
     UsedRange("range", 1, 1, "table", 0, 1),
     UsedRange("range", 1, 1, "table", 1, 1)}
RowCounts == (0 .. 2) \cup ((CellMappingLimit - 1) .. MaxRows)
Anchors == {<<1, 1>>, <<3, 26>>}
UsedRangesAll ==
    {NoTable("raise", "none"), NoTable("none", "none"),
     NoTable("range", "raise"), NoTable("range", "none")}
    \cup {UsedRange("range", a[1], a[2], "table", n, m) :
             a \in Anchors, n \in RowCounts, m \in 1 .. MaxCols}

\* operations
WriteCellOps ==
    {Operation("write_cell", c[1], c[2], NoneV, NoneV) :
        c \in {<<NoneV, "v1">>, <<"A1", "v1">>, <<"A1", NoneV>>, <<BadAddr, "v1">>}}
WriteRangeOps ==
    {Operation("write_range", NoneV, NoneV, r[1], r[2]) :
        r \in {<<NoneV, Grid>>, <<"B2", NoneV>>, <<"B2", EmptyGrid>>,
               <<"B2", Grid>>, <<BadAddr, Grid>>}}
OtherOps == {Operation("bogus", "A1", "v1", NoneV, NoneV)}
ObjectOps == WriteCellOps \cup WriteRangeOps \cup OtherOps
AllOps == ObjectOps \cup {NotAnObject}
SmallOps ==
    {Operation("write_cell", "A1", "v1", NoneV, NoneV),
     Operation("write_cell", NoneV, "v1", NoneV, NoneV),
     Operation("bogus", "A1", "v1", NoneV, NoneV),
     NotAnObject}

SeqsUpTo(S, n) == UNION {[1 .. k -> S] : k \in 0 .. n}

\* request bodies over the names wbs and shs and the operation lists opss
Bodies(wbs, shs, opss) ==
    {Body("none", FALSE, FALSE, NoneV, NoneV, <<>>),
     Body("raise", FALSE, FALSE, NoneV, NoneV, <<>>),
     Body("array", TRUE, FALSE, NoneV, NoneV, <<>>)}
    \cup {Body("object", FALSE, FALSE, w, NoneV, <<>>) : w \in wbs}
    \cup {Body("object", TRUE, FALSE, w, sh, <<>>) : w \in wbs, sh \in shs}
    \cup {Body("object", TRUE, TRUE, w, sh, ops) : w \in wbs, sh \in shs, ops \in opss}

\* --------------------------------------------------------- specifications
Init ==
    /\ appRunning = FALSE
    /\ books = {}
    /\ activeBook = NoBook
    /\ sheets = DefaultSheets
    /\ activeSheet = DefaultActiveSheet
    /\ fault = "none"
    /\ doc = EmptyDoc
    /\ req = NoRequest
    /\ resp = NoResponse
    /\ trace = NoTrace

HostStep ==
    \/ StartApp
    \/ StopApp
    \/ \E b \in BookIds : OpenBook(b)
    \/ \E b \in BookIds : CloseBook(b)
    \/ \E b \in BookIds : ActivateBook(b)
    \/ \E b \in BookIds, s \in SheetNames : AddSheet(b, s)
    \/ \E b \in BookIds, s \in SheetNames : RemoveSheet(b, s)
    \/ \E b \in BookIds, s \in SheetNames : ActivateSheet(b, s)
    \/ \E f \in Faults : SetFault(f)

\* the service next to a live host: any request, any change of the host
Next ==
    \/ HostStep
    \/ Deliver
    \/ Health
    \/ \E w \in WorkbookNames, sh \in RequestSheetNames,
          f \in {NoneV, "false"}, ur \in UsedRangesSmall : GetExcelData(w, sh, f, ur)
    \/ \E data \in Bodies(WorkbookNames, RequestSheetNames, SeqsUpTo(SmallOps, MaxOps)) :
          WriteExcel(data)

Spec == Init /\ [][Next]_vars

\* one workbook open: the state the batch and the read models start from
InitOpen ==
    /\ appRunning = TRUE
    /\ books = {1}
    /\ activeBook = 1
    /\ sheets = DefaultSheets
    /\ activeSheet = DefaultActiveSheet
    /\ fault = "none"
    /\ doc = EmptyDoc
    /\ req = NoRequest
    /\ resp = NoResponse
    /\ trace = NoTrace

\* batches of every shape against one workbook whose active sheet may fail
\* to resolve
NextBatch ==
    \/ Deliver
    \/ \E f \in {"none", "sheets_active"} : SetFault(f)
    \/ \E data \in Bodies({NoneV}, {NoneV}, SeqsUpTo(AllOps, MaxBatch)) :
          WriteExcel(data)

SpecBatch == InitOpen /\ [][NextBatch]_vars

\* reads of tables of every size
NextRead ==
    \/ Deliver
    \/ \E f \in Faults : SetFault(f)
    \/ \E sh \in {NoneV, "Sheet1", "Sheet2"}, f \in FlagParams, ur \in UsedRangesAll :
          GetExcelData(NoneV, sh, f, ur)

SpecRead == InitOpen /\ [][NextRead]_vars

\* ------------------------------------------------------------ properties
\* what the last request was
IsHealth == req.endpoint = "health"
IsRead == req.endpoint = "excel-data"
IsWrite == req.endpoint = "write-excel"

\* the host as a request sees it (the host is unchanged while req is set)
AppSeen == appRunning /\ fault # "apps_active"
ActiveBookSeen == activeBook # NoBook /\ fault # "books_active"
NameOpen(name) == \E b \in books : BookName[b] = name

\* the workbook a request for workbook_name resolves to, NoBook if none
TargetBook(workbook_name) ==
    IF workbook_name \notin {NoneV, EmptyStr}
    THEN IF NameOpen(workbook_name)
         THEN CHOOSE b \in books : BookName[b] = workbook_name ELSE NoBook
    ELSE IF ActiveBookSeen THEN activeBook ELSE NoBook

\* the sheet of workbook b a request for sheet_name resolves to, NoneV if none
TargetSheet(b, sheet_name) ==
    IF sheet_name \notin {NoneV, EmptyStr}
    THEN IF sheet_name \in sheets[b] THEN sheet_name ELSE NoneV
    ELSE IF fault # "sheets_active" THEN activeSheet[b] ELSE NoneV

\* application, workbook and worksheet all resolve for these names
Resolves(workbook_name, sheet_name) ==
    /\ AppSeen
    /\ TargetBook(workbook_name) # NoBook
    /\ TargetSheet(TargetBook(workbook_name), sheet_name) # NoneV

\* the body of the last write request carries an operations list
HasOperationsList ==
    /\ IsWrite
    /\ req.data.json = "object"
    /\ req.data.has_operations
    /\ req.data.iterable

\* the last request was a batch write that got past resolution
BatchRan == HasOperationsList /\ Resolves(req.data.workbook, req.data.sheet)

IsErrorRecord(r) == DOMAIN r = {"error"}
IsSuccessRecord(r) == DOMAIN r = {"success"}

\* C1 (as claimed): once application, workbook and worksheet are resolved, a
\* batch write answers 200 with one result per operation, whatever the
\* operations list holds.
C1_AlwaysResults ==
    BatchRan =>
        /\ resp.status = 200
        /\ Len(resp.body.results) = Len(req.data.operations)
        /\ \A i \in 1 .. Len(req.data.operations) :
              IsErrorRecord(resp.body.results[i]) \/ IsSuccessRecord(resp.body.results[i])

\* the cells of the worksheet the last batch wrote to
TargetCells ==
    LET b == TargetBook(req.data.workbook)
    IN  doc[b][TargetSheet(b, req.data.sheet)]

\* an operation whose write goes through: fields there, address accepted
WritesCell(op) == op.obj /\ op.type = "write_cell" /\ op.cell \in Addrs
WritesRange(op) ==
    op.obj /\ op.type = "write_range" /\ op.range \in Addrs /\ op.values \notin Falsy
IsValidWrite(op) == WritesCell(op) \/ WritesRange(op)

\* C2: the operations of a batch are attempted one at a time in list order; a
\* failing operation (missing field, write that raises, unknown type) does
\* not keep the later ones from being attempted, and every write made stays
\* made: a valid write yields its success record and its value is in the
\* cell unless a later write of the same batch replaced it.
C2_IndependentInOrder ==
    BatchRan =>
        LET ops == req.data.operations
            att == trace.attempted
            ws == trace.writes
        IN  /\ \A p \in 1 .. Len(att) : att[p] = p
            /\ (\A i \in 1 .. Len(ops) : ops[i].obj) => Len(att) = Len(ops)
            /\ \A i \in 1 .. Len(att) :
                  IsValidWrite(ops[i]) =>
                      /\ \E p \in 1 .. Len(ws) : ws[p][1] = i
                      /\ IsSuccessRecord(trace.results[i])
            /\ \A p, q \in 1 .. Len(ws) : p < q => ws[p][1] < ws[q][1]
            /\ \A p \in 1 .. Len(ws) :
                  (\A q \in 1 .. Len(ws) : q > p => ws[q][2] # ws[p][2])
                      => TargetCells[ws[p][2]] = ws[p][3]

\* a write, then a failing operation, then another write that went through
C2_Witness ==
    /\ BatchRan
    /\ resp.status = 200
    /\ \E i, j, k \in 1 .. Len(req.data.operations) :
          /\ i < j /\ j < k
          /\ WritesRange(req.data.operations[i])
          /\ IsErrorRecord(resp.body.results[j])
          /\ WritesCell(req.data.operations[k])
          /\ IsSuccessRecord(resp.body.results[k])
          /\ \E p \in 1 .. Len(trace.writes) : trace.writes[p][1] = k
          /\ TargetCells[req.data.operations[i].range] = req.data.operations[i].values

NoWriteBy(i) == \A p \in 1 .. Len(trace.writes) : trace.writes[p][1] # i

\* C7 (as claimed): a write_cell without `cell` or without `value`, and a
\* write_range without `range` or without `values`, gets an error record and
\* writes nothing.
C7_MissingFieldIsError ==
    BatchRan =>
        \A i \in 1 .. Len(trace.results) :
            LET op == req.data.operations[i]
            IN  (\/ op.type = "write_cell" /\ (op.cell = NoneV \/ op.value = NoneV)
                 \/ op.type = "write_range" /\ (op.range = NoneV \/ op.values = NoneV))
                => IsErrorRecord(trace.results[i]) /\ NoWriteBy(i)

\* C7 (amended): a write_cell whose `cell` is missing or empty, and a
\* write_range whose `range` or `values` is missing or empty, gets an error
\* record and writes nothing; `value` is not required: a write_cell without it
\* writes null.  With the fields there and a write that does not raise, the
\* record is a success record naming the cell and the value, or the range.
C7_RequiredFields ==
    BatchRan =>
        \A i \in 1 .. Len(trace.results) :
            LET op == req.data.operations[i]
                r == trace.results[i]
            IN  /\ (\/ op.type = "write_cell" /\ op.cell \in Falsy
                    \/ op.type = "write_range" /\ (op.range \in Falsy \/ op.values \in Falsy))
                   => IsErrorRecord(r) /\ NoWriteBy(i)
                /\ WritesCell(op) =>
                      /\ r = ResultSuccess(<<"Written '", PyStr(op.value), "' to cell ", op.cell>>)
                      /\ \E p \in 1 .. Len(trace.writes) :
                            trace.writes[p] = <<i, op.cell, op.value>>
                /\ WritesRange(op) =>
                      /\ r = ResultSuccess(<<"Written data to range ", op.range>>)
                      /\ \E p \in 1 .. Len(trace.writes) :
                            trace.writes[p] = <<i, op.range, op.values>>

\* a batch with a write_cell without `value` that wrote null, a write_cell
\* without `cell` and a write_range without `values` that were refused
C7_Witness ==
    /\ BatchRan
    /\ resp.status = 200
    /\ \E i, j, k \in 1 .. Len(req.data.operations) :
          /\ req.data.operations[i] = Operation("write_cell", "A1", NoneV, NoneV, NoneV)
          /\ IsSuccessRecord(resp.body.results[i])
          /\ req.data.operations[j] = Operation("write_cell", NoneV, "v1", NoneV, NoneV)
          /\ IsErrorRecord(resp.body.results[j])
          /\ req.data.operations[k] = Operation("write_range", NoneV, NoneV, "B2", NoneV)
          /\ IsErrorRecord(resp.body.results[k])

\* the last request was answered with this status and this error message
Answered(status, msg) ==
    resp.status = status /\ "error" \in DOMAIN resp.body /\ resp.body.error = msg

\* the body of the last write request is a JSON object with `operations`
HasOperationsKey == IsWrite /\ req.data.json = "object" /\ req.data.has_operations

\* C3 (as claimed): with no running application every endpoint answers 503
\* "No Excel application running", whatever the request carries.
C3_Always503 == (~Idle /\ ~AppSeen) => Answered(503, MsgNoApp)

\* C3 (amended): with no running application GET /health and
\* GET /api/excel-data answer 503 "No Excel application running" whatever the
\* query, and POST /api/write-excel answers it whenever its body is a JSON
\* object with `operations`; a write request with no body or without
\* `operations` is answered 400 first, one whose body cannot be read 500.
C3_NoApp503 ==
    (~Idle /\ ~AppSeen) =>
        IF IsWrite /\ ~HasOperationsKey
        THEN IF req.data.json \in {"none", "object"}
             THEN Answered(400, MsgNoOperations)
             ELSE resp.status = 500
        ELSE Answered(503, MsgNoApp)

\* a batch with an operation in it, and names, answered 503 while the
\* application runs but cannot be reached
C3_Witness ==
    /\ HasOperationsKey
    /\ ~AppSeen
    /\ appRunning
    /\ req.data.operations # <<>>
    /\ req.data.workbook = "Book1.xlsx"
    /\ Answered(503, MsgNoApp)

\* C8: GET /health answers 200 "healthy" with the workbook's name only if the
\* application and the active workbook resolve; without an application it
\* answers 503 whatever the workbooks are (the application is checked first),
\* with an application but no active workbook 404, and 500 when a step (the
\* read of the workbook's name) raises; all three with status "unhealthy".
C8_HealthOutcomes ==
    IsHealth =>
        /\ ~AppSeen =>
              /\ Answered(503, MsgNoApp)
              /\ resp.body.status = "unhealthy"
        /\ (AppSeen /\ ~ActiveBookSeen) =>
              /\ Answered(404, MsgNoWorkbook)
              /\ resp.body.status = "unhealthy"
        /\ (AppSeen /\ ActiveBookSeen /\ fault = "name") =>
              /\ Answered(500, ExcMsg)
              /\ resp.body.status = "unhealthy"
        /\ (AppSeen /\ ActiveBookSeen /\ fault # "name") =>
              /\ resp.status = 200
              /\ resp.body = [status |-> "healthy", workbook |-> BookName[activeBook]]
        /\ resp.status = 200 => (AppSeen /\ ActiveBookSeen)

\* a health probe answered 503 although a workbook is open and active: the
\* lookup of the application failed and was checked first
C8_Witness ==
    /\ IsHealth
    /\ ~AppSeen
    /\ activeBook = 2
    /\ Answered(503, MsgNoApp)

\* the last write request reached resolution and application, workbook or
\* worksheet did not resolve
ResolutionFailed ==
    HasOperationsKey /\ ~Resolves(req.data.workbook, req.data.sheet)

\* C4 (as claimed): a batch write whose application, workbook or worksheet
\* does not resolve ends with 503 or 404 and has written nothing.
C4_FailsWith503Or404 ==
    ResolutionFailed => (resp.status \in {503, 404} /\ trace.writes = <<>>)

\* C4 (amended): a batch write whose application, workbook or worksheet does
\* not resolve ends with 503 or 404, or with 500 when the named sheet is
\* missing and the read of the workbook's name for the message raises; in
\* every case no operation of the batch was attempted and the document is
\* as it was before the request.
C4_NoWriteOnFailedResolution ==
    [][ (Idle /\ req'.endpoint = "write-excel"
              /\ req'.data.json = "object" /\ req'.data.has_operations
              /\ ~Resolves(req'.data.workbook, req'.data.sheet))
        => /\ doc' = doc
           /\ trace' = NoTrace
           /\ IF AppSeen /\ TargetBook(req'.data.workbook) # NoBook
                 /\ req'.data.sheet \notin Falsy /\ fault = "name"
              THEN resp'.status = 500
              ELSE resp'.status \in {503, 404} ]_vars

\* a batch naming a sheet its workbook does not have, answered 404, with
\* cells written by an earlier request still in the document
C4_Witness ==
    /\ ResolutionFailed
    /\ req.data.operations # <<>>
    /\ req.data.operations[1].cell = "A1"
    /\ AppSeen
    /\ TargetBook(req.data.workbook) = 1
    /\ req.data.sheet = "Sheet2"
    /\ resp.status = 404
    /\ doc[1]["Sheet1"]["A1"] = "v1"

\* the last request is one that resolves names: a read, or a write whose body
\* carries `operations`
NamesLookedUp == IsRead \/ HasOperationsKey
RequestedWorkbook == IF IsRead THEN req.workbook ELSE req.data.workbook
RequestedSheet == IF IsRead THEN req.sheet ELSE req.data.sheet

\* C6 (as claimed): with a host running, a request (read or write) for a
\* workbook name that is not open is answered 404 "Workbook '<name>' not
\* found", and one for a sheet name its workbook does not have 404
\* "Sheet '<name>' not found ...".
C6_NotFoundNamesRequest ==
    (NamesLookedUp /\ AppSeen) =>
        /\ (RequestedWorkbook \notin Falsy /\ ~NameOpen(RequestedWorkbook))
              => Answered(404, MsgWorkbookNotFound(RequestedWorkbook))
        /\ (/\ TargetBook(RequestedWorkbook) # NoBook
            /\ RequestedSheet \notin Falsy
            /\ RequestedSheet \notin sheets[TargetBook(RequestedWorkbook)])
              => /\ resp.status = 404
                 /\ "error" \in DOMAIN resp.body
                 /\ SubSeq(resp.body.error, 1, 3)
                        = <<"Sheet '", RequestedSheet, "' not found in workbook '">>

\* C6 (amended): with a host running, a read, or a write whose body carries
\* `operations`, for a workbook name that is not open is answered 404
\* "Workbook '<name>' not found" with the requested name; for a sheet name
\* the resolved workbook does not have it is answered 404 "Sheet '<name>' not
\* found in workbook '<workbook>'" with the requested sheet and the resolved
\* workbook, or 500 when the read of that workbook's name raises.  It is never
\* answered from the active workbook or sheet.
C6_NotFoundOr500 ==
    (NamesLookedUp /\ AppSeen) =>
        /\ (RequestedWorkbook \notin Falsy /\ ~NameOpen(RequestedWorkbook))
              => Answered(404, MsgWorkbookNotFound(RequestedWorkbook))
        /\ (/\ TargetBook(RequestedWorkbook) # NoBook
            /\ RequestedSheet \notin Falsy
            /\ RequestedSheet \notin sheets[TargetBook(RequestedWorkbook)])
              => /\ trace = NoTrace
                 /\ IF fault = "name"
                    THEN Answered(500, ExcMsg)
                    ELSE Answered(404,
                             MsgSheetNotFound(RequestedSheet,
                                 BookName[TargetBook(RequestedWorkbook)]))

\* a write for a workbook that is not open while another one is open and
\* active, answered 404 with the requested name
C6_Witness ==
    /\ HasOperationsKey
    /\ AppSeen
    /\ req.data.workbook = "Book2.xlsx"
    /\ books = {1}
    /\ ActiveBookSeen
    /\ req.data.operations # <<>>
    /\ Answered(404, MsgWorkbookNotFound("Book2.xlsx"))

\* C10: a write request with no body, or whose JSON object has no
\* `operations`, is answered 400 "No operations provided" and leaves every
\* cell as it was.
C10_NoOperations400 ==
    [][ (Idle /\ req'.endpoint = "write-excel"
              /\ (\/ req'.data.json = "none"
                  \/ req'.data.json = "object" /\ ~req'.data.has_operations))
        => /\ resp'.status = 400
           /\ resp'.body = ErrorBody(MsgNoOperations)
           /\ doc' = doc
           /\ trace' = NoTrace ]_vars

\* a body without `operations` answered 400 while no application runs
C10_Witness ==
    /\ IsWrite
    /\ req.data.json = "object"
    /\ ~req.data.has_operations
    /\ ~appRunning
    /\ Answered(400, MsgNoOperations)

\* the flag of the last read is true: absent, or "true" in any letter case
FlagIsTrue == req.include_cell_mapping \in {NoneV, "true", "True"}

\* C5: a 200 answer of GET /api/excel-data has `cell_mapping` exactly when
\* the flag is true (absent counts as true) and the table has at most 100
\* rows.
C5_CellMappingIff ==
    (IsRead /\ resp.status = 200) =>
        (("cell_mapping" \in DOMAIN resp.body)
            <=> (FlagIsTrue /\ req.used_range.nrows <= 100))

\* a table of exactly 100 rows read without the flag: the mapping is there
C5_Witness ==
    /\ IsRead
    /\ resp.status = 200
    /\ req.include_cell_mapping = NoneV
    /\ req.used_range.nrows = 100
    /\ "cell_mapping" \in DOMAIN resp.body

\* C9: with application, workbook and worksheet resolved, a used range that
\* is absent, or that converts to no table or to a table without data rows,
\* is answered 404 "No data found in worksheet"; no 200 carries empty data.
C9_NoData404 ==
    IsRead =>
        /\ (/\ Resolves(req.workbook, req.sheet)
            /\ \/ req.used_range.used = "none"
               \/ /\ req.used_range.used = "range"
                  /\ \/ req.used_range.conv = "none"
                     \/ req.used_range.conv = "table" /\ req.used_range.nrows = 0)
              => Answered(404, MsgNoData)
        /\ resp.status = 200 =>
              /\ resp.body.shape[1] > 0
              /\ DOMAIN resp.body.data # {}

\* a used range holding only its header row, answered 404
C9_Witness ==
    /\ IsRead
    /\ Resolves(req.workbook, req.sheet)
    /\ req.used_range.used = "range"
    /\ req.used_range.conv = "table"
    /\ req.used_range.nrows = 0
    /\ req.used_range.ncols = 2
    /\ Answered(404, MsgNoData)

\* ------------------------------------------------------- the JSON encoder
\* RobustJSONEncoder.default is called by the serializer with each value it
\* cannot write natively.  An object is its class, its payload and, for an
\* array, its shape.  A payload is a tuple of integers; the empty payload of
\* a float, a Decimal, a datetime64 or the not-a-time object is the value
\* that is "not a number" / "not a time".
MaxScalar == 2       \* largest magnitude of a numeric payload

Obj(cls, val, shape) == [cls |-> cls, val |-> val, shape |-> shape]
Scalar(cls, val) == Obj(cls, val, <<>>)
NaN == <<>>

\* the classes each class derives from (its own name included): the
\* relation isinstance tests.  pd.Timestamp and the class of pd.NaT both
\* derive from datetime.
Mro(cls) ==
    CASE cls \in {"np.int32", "np.int64"} -> {cls, "np.integer"}
      [] cls \in {"np.float32", "np.float64"} -> {cls, "np.floating"}
      [] cls = "pd.Timestamp" -> {cls, "datetime"}
      [] cls = "NaTType" -> {cls, "datetime"}
      [] OTHER -> {cls}

isinstance(obj, classes) == Mro(obj.cls) \cap classes # {}

\* a JSON-native value, or the exception the call raised
Json(kind, val) == [json |-> kind, val |-> val]
TypeNotSerializable == Json("TypeError", <<>>)

\* obj.tolist(): the flat buffer read row by row in the array's shape
tolist(obj) ==
    IF Len(obj.shape) = 1
    THEN obj.val
    ELSE [r \in 1..obj.shape[1] |->
             [c \in 1..obj.shape[2] |-> obj.val[(r - 1) * obj.shape[2] + c]]]

\* obj.isoformat(): date, "T", time; the not-a-time object prints itself
isoformat(obj) ==
    IF obj.cls = "NaTType"
    THEN <<"NaT">>
    ELSE <<obj.val[1], "-", obj.val[2], "-", obj.val[3], "T",
           obj.val[4], ":", obj.val[5], ":", obj.val[6]>>

\* pd.isna of a scalar
isna(obj) ==
    \/ obj.cls \in {"NoneType", "NAType", "NaTType"}
    \/ obj.cls \in {"float", "np.float32", "np.float64", "Decimal", "np.datetime64"}
         /\ obj.val = NaN

\* RobustJSONEncoder.default: the first test that matches decides
default(obj) ==
    IF isinstance(obj, {"np.integer"}) THEN Json("int", obj.val)
    ELSE IF isinstance(obj, {"np.floating"}) THEN Json("float", obj.val)
    ELSE IF isinstance(obj, {"np.ndarray"}) THEN Json("list", tolist(obj))
    ELSE IF isinstance(obj, {"datetime", "pd.Timestamp"}) THEN Json("str", isoformat(obj))
    ELSE IF isinstance(obj, {"Decimal"}) THEN Json("float", obj.val)
    ELSE IF isna(obj) THEN Json("null", <<>>)
    ELSE TypeNotSerializable

\* the serializer hands the object of the pending call to the encoder
Default ==
    /\ req.endpoint = "default"
    /\ resp = NoResponse
    /\ resp' = Response(0, default(req.obj))
    /\ UNCHANGED <<hostVars, doc, req, trace>>

\* the objects the encoder is called with
Numbers == {<<k>> : k \in (0 - MaxScalar)..MaxScalar}
Buffers(n) == [1..n -> {0, MaxScalar}]
Shapes == {<<0>>, <<1>>, <<2>>, <<1, 1>>, <<1, 2>>, <<2, 1>>, <<2, 2>>}
Size(shape) == IF Len(shape) = 1 THEN shape[1] ELSE shape[1] * shape[2]
Moments == {<<2023, mo, 1, h, 0, s>> : mo \in {1, 12}, h \in {0, 12}, s \in {0, 59}}

EncoderInputs ==
    {Scalar(c, v) : c \in {"np.int32", "np.int64"}, v \in Numbers}
    \cup {Scalar(c, v) : c \in {"np.float32", "np.float64", "Decimal"},
                         v \in Numbers \cup {NaN}}
    \cup UNION {{Obj("np.ndarray", b, sh) : b \in Buffers(Size(sh))} : sh \in Shapes}
    \cup {Scalar(c, v) : c \in {"datetime", "pd.Timestamp"}, v \in Moments}
    \cup {Scalar(c, NaN) : c \in {"NoneType", "NAType", "NaTType", "float", "np.datetime64"}}
    \cup {Scalar("np.datetime64", v) : v \in Moments}
    \cup {Scalar(c, <<0>>) : c \in {"set", "complex", "np.bool_"}}

InitEncoder ==
    /\ appRunning = FALSE
    /\ books = {}
    /\ activeBook = NoBook
    /\ sheets = DefaultSheets
    /\ activeSheet = DefaultActiveSheet
    /\ fault = "none"
    /\ doc = EmptyDoc
    /\ req \in {[endpoint |-> "default", obj |-> o] : o \in EncoderInputs}
    /\ resp = NoResponse
    /\ trace = NoTrace

NextEncoder == Default

SpecEncoder == InitEncoder /\ [][NextEncoder]_vars

\* the last call was a call of the encoder, and it has returned
IsDefault == req.endpoint = "default" /\ resp # NoResponse

\* the categories of the dispatch table
ExtendedIntegers == {"np.int32", "np.int64"}
ExtendedFloats == {"np.float32", "np.float64"}
DateTimes == {"datetime", "pd.Timestamp"}
IsMissing(obj) ==
    \/ obj.cls \in {"NoneType", "NAType", "NaTType"}
    \/ obj.cls \in {"float", "np.datetime64"} /\ obj.val = NaN

\* the nested list of an array: one entry per row, one number per column
IsNestedList(out, obj) ==
    /\ out.json = "list"
    /\ Len(out.val) = obj.shape[1]
    /\ Len(obj.shape) = 1 => \A k \in 1..obj.shape[1] : out.val[k] = obj.val[k]
    /\ Len(obj.shape) = 2 =>
          \A r \in 1..obj.shape[1] :
             /\ Len(out.val[r]) = obj.shape[2]
             /\ \A c \in 1..obj.shape[2] :
                   out.val[r][c] = obj.val[(r - 1) * obj.shape[2] + c]

\* an ISO-8601 string of the moment: YYYY-MM-DDTHH:MM:SS
IsIso8601(out, obj) ==
    /\ out.json = "str"
    /\ Len(out.val) = 11
    /\ \A k \in 1..6 : out.val[2 * k - 1] = obj.val[k]
    /\ <<out.val[2], out.val[4], out.val[6], out.val[8], out.val[10]>>
          = <<"-", "-", "T", ":", ":">>

\* C11: `default` returns the output of the category of its input: an
\* extended integer gives a native integer, an extended float or a Decimal
\* a native float, an array a nested list, a date/time an ISO-8601 string,
\* every missing-value sentinel (the not-a-time object included) null; any
\* other type reaches the base encoder, which raises.
C11_DispatchTable ==
    IsDefault =>
        LET obj == req.obj
            out == resp.body
        IN  CASE obj.cls \in ExtendedIntegers -> out = Json("int", obj.val)
              [] obj.cls \in ExtendedFloats \cup {"Decimal"} -> out = Json("float", obj.val)
              [] obj.cls = "np.ndarray" -> IsNestedList(out, obj)
              [] obj.cls \in DateTimes -> IsIso8601(out, obj)
              [] IsMissing(obj) -> out.json = "null"
              [] OTHER -> out.json = "TypeError"

\* a step of the last request raised an exception the handler has no test
\* for: the read of a handle's name, the used range or its conversion, the
\* parse of the body, a body that is not an object, an operations value
\* that cannot be iterated, an entry that is not an object
SheetStepRaises(workbook_name, sheet_name, after) ==
    /\ AppSeen
    /\ TargetBook(workbook_name) # NoBook
    /\ IF TargetSheet(TargetBook(workbook_name), sheet_name) = NoneV
       THEN sheet_name \notin Falsy /\ fault = "name"
       ELSE after

UnanticipatedException ==
    \/ IsHealth /\ AppSeen /\ ActiveBookSeen /\ fault = "name"
    \/ /\ IsRead
       /\ SheetStepRaises(req.workbook, req.sheet,
              \/ req.used_range.used = "raise"
              \/ /\ req.used_range.used = "range"
                 /\ \/ req.used_range.conv = "raise"
                    \/ /\ req.used_range.conv = "table"
                       /\ req.used_range.nrows > 0
                       /\ req.used_range.ncols > 0
                       /\ fault = "name")
    \/ /\ IsWrite
       /\ \/ req.data.json \in {"raise", "array"}
          \/ /\ HasOperationsKey
             /\ SheetStepRaises(req.data.workbook, req.data.sheet,
                    \/ ~req.data.iterable
                    \/ \E k \in DOMAIN req.data.operations :
                          ~req.data.operations[k].obj)

\* the last request was handled by one of the three handlers
IsHandled == IsHealth \/ IsRead \/ IsWrite

\* C12: every request to a handler is answered with one JSON body and a
\* status among 200, 400, 404, 503 and 500; it is answered 500 exactly when
\* a step raised an exception the handler has no test for, and the body of
\* the 500 carries the exception's message.
C12_AlwaysAnswered ==
    IsHandled =>
        /\ resp.status \in {200, 400, 404, 503, 500}
        /\ resp.status # 200 => "error" \in DOMAIN resp.body
        /\ UnanticipatedException <=> resp.status = 500
        /\ resp.status = 500 => resp.body.error = ExcMsg

\* a batch whose entry is not an object, sent to a resolved worksheet: the
\* AttributeError of the entry is answered 500 with its message
C12_Witness ==
    /\ BatchRan
    /\ req.data.operations = <<NotAnObject>>
    /\ Answered(500, ExcMsg)

\* the error message of the last response, <<>> when it has none
ErrorOf(response) ==
    IF "error" \in DOMAIN response.body THEN response.body.error ELSE <<>>

\* C13: GET /api/excel-data resolves application, workbook, worksheet and
\* used range in this order and the first step that fails decides the
\* answer: without an application 503 whatever the names are; with an
\* application and a workbook that does not resolve the 404 of the workbook
\* whatever the sheet name is; with a worksheet that does not resolve an
\* answer about the worksheet, whatever the used range would give; "No data"
\* and 200 only once all three have resolved.
C13_FirstFailureDecides ==
    IsRead =>
        /\ ~AppSeen => Answered(503, MsgNoApp)
        /\ (AppSeen /\ TargetBook(req.workbook) = NoBook) =>
              Answered(404, IF req.workbook \in Falsy
                            THEN MsgNoWorkbook
                            ELSE MsgWorkbookNotFound(req.workbook))
        /\ (/\ AppSeen
            /\ TargetBook(req.workbook) # NoBook
            /\ TargetSheet(TargetBook(req.workbook), req.sheet) = NoneV) =>
              /\ fault # "name" =>
                    Answered(404, IF req.sheet \in Falsy
                                  THEN MsgNoWorksheet
                                  ELSE MsgSheetNotFound(req.sheet,
                                           BookName[TargetBook(req.workbook)]))
              /\ ErrorOf(resp) # MsgNoData
        /\ (resp.status = 200 \/ ErrorOf(resp) = MsgNoData)
              => Resolves(req.workbook, req.sheet)

\* a read naming a workbook that is not open and a sheet the active workbook
\* does not have, over a used range whose read would raise: the 404 names
\* the workbook
C13_Witness ==
    /\ IsRead
    /\ AppSeen
    /\ ActiveBookSeen
    /\ req.workbook = "Book2.xlsx"
    /\ 2 \notin books
    /\ req.sheet = "Sheet2"
    /\ "Sheet2" \notin sheets[activeBook]
    /\ req.used_range.used = "raise"
    /\ Answered(404, MsgWorkbookNotFound("Book2.xlsx"))

\* the standard column-letter encoding of the columns 1 .. 702:
\* 1 -> A, 26 -> Z, 27 -> AA, 52 -> AZ, 53 -> BA
ColumnLetter(n) ==
    IF n <= 26
    THEN <<Letters[n]>>
    ELSE <<Letters[(n - 1) \div 26], Letters[((n - 1) % 26) + 1]>>

\* C14: an included cell_mapping of a used range anchored at (row, column)
\* with n records and m columns has exactly n * m entries; the entry of
\* record i and column j has the key column-letter(column + j), row + i + 1
\* and its value is data[i][j], the value of the sheet cell at that address.
C14_CellMappingEntries ==
    (IsRead /\ resp.status = 200 /\ "cell_mapping" \in DOMAIN resp.body) =>
        LET ur == req.used_range
            n == resp.body.shape[1]
            m == resp.body.shape[2]
            cell_mapping == resp.body.cell_mapping
        IN  /\ Cardinality(DOMAIN cell_mapping) = n * m
            /\ \A i \in 0 .. n - 1, j \in 0 .. m - 1 :
                  LET key == <<ColumnLetter(ur.column + j), ur.row + i + 1>>
                  IN  /\ key \in DOMAIN cell_mapping
                      /\ cell_mapping[key] = resp.body.data[i][j]
                      /\ cell_mapping[key] = GridValue(ur.row + i + 1, ur.column + j)

\* a table of two records and two columns under a header in row 3, columns
\* Z and AA: the last cell of the mapping is AA5
C14_Witness ==
    /\ IsRead
    /\ resp.status = 200
    /\ "cell_mapping" \in DOMAIN resp.body
    /\ req.used_range.row = 3
    /\ req.used_range.column = 26
    /\ resp.body.shape = <<2, 2>>
    /\ DOMAIN resp.body.cell_mapping
          = {<<<<"Z">>, 4>>, <<<<"A", "A">>, 4>>, <<<<"Z">>, 5>>, <<<<"A", "A">>, 5>>}
    /\ resp.body.cell_mapping[<<<<"A", "A">>, 5>>] = resp.body.data[1][1]

\* a step that handles a request: the host it observes is the host of the
\* state it starts from
RequestStep == Idle /\ ~Idle'

\* C15: the service keeps nothing between requests.  Whatever requests and
\* host changes came before, a request is answered from the host as it is
\* while the request runs: 503 exactly when no application is seen now, 200
\* only if its names resolve now, with the names of the workbook and sheet
\* they resolve to now; a write changes no cell outside the sheet its names
\* resolve to now.
C15_NoStateBetweenRequests ==
    [][ RequestStep =>
          LET name == IF IsRead' THEN req'.workbook
                      ELSE IF IsWrite' THEN req'.data.workbook ELSE NoneV
              sheet == IF IsRead' THEN req'.sheet
                       ELSE IF IsWrite' THEN req'.data.sheet ELSE NoneV
              book == TargetBook(name)
          IN  /\ IsHealth' =>
                    /\ resp'.status = 503 <=> ~AppSeen
                    /\ resp'.status = 200 <=> (AppSeen /\ ActiveBookSeen /\ fault # "name")
                    /\ resp'.status = 200 => resp'.body.workbook = BookName[activeBook]
              /\ IsRead' =>
                    /\ resp'.status = 503 <=> ~AppSeen
                    /\ resp'.status = 200 =>
                          /\ Resolves(name, sheet)
                          /\ resp'.body.workbook = BookName[book]
                          /\ resp'.body.sheet = TargetSheet(book, sheet)
              /\ HasOperationsKey' =>
                    /\ resp'.status = 503 <=> ~AppSeen
                    /\ resp'.status = 200 => Resolves(name, sheet)
                    /\ \A b \in BookIds, s \in SheetNames :
                          doc'[b][s] # doc[b][s] =>
                             /\ Resolves(name, sheet)
                             /\ b = book
                             /\ s = TargetSheet(book, sheet)
              /\ (IsWrite' /\ ~HasOperationsKey') => doc' = doc ]_vars

\* a write to the active workbook lands in the workbook that is active now,
\* while the cell an earlier write put into the workbook that was active
\* then is still there
C15_Witness ==
    /\ BatchRan
    /\ req.data.workbook = NoneV
    /\ req.data.sheet = NoneV
    /\ books = {1, 2}
    /\ activeBook = 2
    /\ resp.status = 200
    /\ Len(trace.writes) = 1
    /\ doc[2][activeSheet[2]]["A1"] = "v1"
    /\ doc[1]["Sheet1"]["A1"] = "v1"

====
